---------------------------- MODULE Spec2Model ----------------------------
(***************************************************************************)
(* A model of the active-recall mock service of recall-gpt                 *)
(* (MockActiveRecallAPI, src/frontend/README.md lines 288-432), of the     *)
(* fixtures it is constructed from, and of the hook useActiveRecall with   *)
(* the page that uses it.                                                  *)
(*                                                                         *)
(* JavaScript strings that the service inspects (answers) are sequences of *)
(* one-character strings; strings it only compares or passes on (ids, type *)
(* tags, error messages) are TLA+ strings.  Confidence scores are kept in  *)
(* tenths (0.3 is 3): every score the service computes from a confidence   *)
(* in 1..5 is, up to one unit in the last place of a double, a multiple of *)
(* 0.1, and every product it rounds lies 0.1 or more away from a rounding  *)
(* boundary; k * 0.6 compares with a match count as 6k does with ten times *)
(* the count for every k up to 30.  Times are milliseconds since the       *)
(* construction of the service.                                            *)
(***************************************************************************)
EXTENDS Integers, Sequences, FiniteSets, TLC

VARIABLES
  questions,   \* this.questions
  materials,   \* this.materials
  now,         \* the clock: what new Date() / Date.now() reads
  call,        \* the last service call: its name and its arguments
  result,      \* what that call resolved to
  schedules,   \* this.schedules
  analytics,   \* this.analytics
  hookQuestions,         \* useActiveRecall: questions
  currentQuestion,       \* useActiveRecall: currentQuestion
  currentQuestionIndex,  \* useActiveRecall: currentQuestionIndex
  feedback,              \* useActiveRecall: feedback
  schedule,              \* useActiveRecall: schedule
  loading,               \* useActiveRecall: loading
  error,                 \* useActiveRecall: error
  sessionStats,          \* useActiveRecall: sessionStats
  startTime,             \* useActiveRecall: startTimeRef.current
  pending,               \* the service calls the hook is awaiting
  showSessionComplete,   \* ActiveRecall page: showSessionComplete
  feedbackFor,           \* history: the question id feedback was computed for
  answered,              \* history: the question ids sessionStats has counted
  hookUserAnswer         \* useActiveRecall: userAnswer

\* The state of the service object.
service == <<questions, materials, schedules, analytics>>

\* The state of the hook and of the page that uses it.
hook ==
  <<hookQuestions, currentQuestion, currentQuestionIndex, feedback, schedule,
    loading, error, sessionStats, startTime, pending, showSessionComplete,
    feedbackFor, answered, hookUserAnswer>>

vars == <<service, now, call, result, hook>>

-----------------------------------------------------------------------------
(* Bounds of the model.                                                    *)

\* The clock stops advancing, and with it the service calls, after this
\* many milliseconds.
MaxClock == 500

\* The largest options.numQuestions a caller passes.
MaxNumQuestions == 6

-----------------------------------------------------------------------------
(* JavaScript string operations.                                           *)

Min(S) == CHOOSE x \in S : \A y \in S : x <= y
Max(S) == CHOOSE x \in S : \A y \in S : x >= y

UpperCase == <<"A", "B", "C", "D", "E", "F", "G", "H", "I", "J", "K", "L", "M",
               "N", "O", "P", "Q", "R", "S", "T", "U", "V", "W", "X", "Y", "Z">>
LowerCase == <<"a", "b", "c", "d", "e", "f", "g", "h", "i", "j", "k", "l", "m",
               "n", "o", "p", "q", "r", "s", "t", "u", "v", "w", "x", "y", "z">>

\* The characters String.prototype.trim() strips (those the inputs use).
WhiteSpace == {" ", "\t", "\n"}

LowerChar(c) ==
  IF \E i \in 1..Len(UpperCase) : UpperCase[i] = c
  THEN LowerCase[CHOOSE i \in 1..Len(UpperCase) : UpperCase[i] = c]
  ELSE c

\* String.prototype.toLowerCase()
ToLowerCase(s) == [i \in 1..Len(s) |-> LowerChar(s[i])]

\* String.prototype.trim()
Trim(s) ==
  LET kept == {i \in 1..Len(s) : s[i] \notin WhiteSpace}
  IN  IF kept = {} THEN <<>> ELSE SubSeq(s, Min(kept), Max(kept))

\* String.prototype.includes(): t occurs in s as a contiguous substring.
Includes(s, t) ==
  \E i \in 0..(Len(s) - Len(t)) : SubSeq(s, i + 1, i + Len(t)) = t

RECURSIVE SplitFrom(_, _)
\* The words of s from position i on: one step per word.
SplitFrom(s, i) ==
  LET spaces == {j \in i..Len(s) : s[j] = " "}
  IN  IF spaces = {} THEN <<SubSeq(s, i, Len(s))>>
      ELSE <<SubSeq(s, i, Min(spaces) - 1)>> \o SplitFrom(s, Min(spaces) + 1)

\* String.prototype.split(' '): "" splits to [""], "a  b" to ["a", "", "b"].
Split(s) == SplitFrom(s, 1)

-----------------------------------------------------------------------------
(* The fixtures.                                                           *)

Ans_q1 ==
  <<"A", "s", "s", "e", "m", "b", "l", "y", "-", "b", "a", "s", "e", "d">>
Ans_q2 ==
  <<"f", "a", "l", "s", "e">>
Ans_q3 ==
  <<"o", "b", "j", "e", "c", "t", "-", "o", "r", "i", "e", "n", "t", "e", "d">>
Ans_q4 ==
  <<"u", "s", "e", "C", "a", "l", "l", "b", "a", "c", "k">>
Ans_q5 ==
  <<"C", "u", "s", "t", "o", "m", " ", "h", "o", "o", "k", "s", " ", "a", "l", "l", "o",
    "w", " ", "y", "o", "u", " ", "t", "o", " ", "e", "x", "t", "r", "a", "c", "t", " ",
    "c", "o", "m", "p", "o", "n", "e", "n", "t", " ", "l", "o", "g", "i", "c", " ", "i",
    "n", "t", "o", " ", "r", "e", "u", "s", "a", "b", "l", "e", " ", "f", "u", "n", "c",
    "t", "i", "o", "n", "s", " ", "t", "h", "a", "t", " ", "c", "a", "n", " ", "b", "e",
    " ", "s", "h", "a", "r", "e", "d", " ", "a", "c", "r", "o", "s", "s", " ", "m", "u",
    "l", "t", "i", "p", "l", "e", " ", "c", "o", "m", "p", "o", "n", "e", "n", "t", "s", ".">>
Ans_q6 ==
  <<"A", "l", "l", " ", "o", "f", " ", "t", "h", "e", " ", "a", "b", "o", "v", "e">>

SAMPLE_LEARNING_MATERIALS ==
  << [id |-> "material_1", difficulty |-> "BEGINNER"],
     [id |-> "material_2", difficulty |-> "INTERMEDIATE"],
     [id |-> "material_3", difficulty |-> "ADVANCED"] >>

SAMPLE_QUESTIONS ==
  << [id |-> "q1", materialId |-> "material_1", type |-> "MULTIPLE_CHOICE",
      difficulty |-> "BEGINNER", correctAnswer |-> Ans_q1,
      explanation |-> "JavaScript supports ... but not assembly-based programming."],
     [id |-> "q2", materialId |-> "material_1", type |-> "TRUE_FALSE",
      difficulty |-> "BEGINNER", correctAnswer |-> Ans_q2,
      explanation |-> "JavaScript can run in browsers and also on servers ..."],
     [id |-> "q3", materialId |-> "material_1", type |-> "FILL_IN_BLANK",
      difficulty |-> "BEGINNER", correctAnswer |-> Ans_q3,
      explanation |-> "JavaScript is a multi-paradigm language ..."],
     [id |-> "q4", materialId |-> "material_2", type |-> "MULTIPLE_CHOICE",
      difficulty |-> "INTERMEDIATE", correctAnswer |-> Ans_q4,
      explanation |-> "useCallback is used to memoize functions ..."],
     [id |-> "q5", materialId |-> "material_2", type |-> "SHORT_ANSWER",
      difficulty |-> "INTERMEDIATE", correctAnswer |-> Ans_q5,
      explanation |-> "Custom hooks enable code reuse and separation of concerns ..."],
     [id |-> "q6", materialId |-> "material_3", type |-> "MULTIPLE_CHOICE",
      difficulty |-> "ADVANCED", correctAnswer |-> Ans_q6,
      explanation |-> "All ACID properties work together ..."] >>

-----------------------------------------------------------------------------
(* submitQuestionResponse: the answer evaluator.                           *)

\* The normalisation without toLowerCase(): a case-sensitive comparison.
NormalizeAnswer_CaseSensitive(s) == Trim(s)

\* response.answer.toLowerCase().trim(), question.correctAnswer likewise
NormalizeAnswer(s) == Trim(ToLowerCase(s))

\* MULTIPLE_CHOICE and TRUE_FALSE: userAnswer === correctAnswer
ExactMatch(userAnswer, correctAnswer) == userAnswer = correctAnswer

\* FILL_IN_BLANK with one of the two includes() left out.
FillInBlankMatch_OneWay(userAnswer, correctAnswer) ==
  Includes(userAnswer, correctAnswer)

\* FILL_IN_BLANK
FillInBlankMatch(userAnswer, correctAnswer) ==
  Includes(userAnswer, correctAnswer) \/ Includes(correctAnswer, userAnswer)

\* SHORT_ANSWER: correctAnswer.split(' ').filter(word => word.length > 3)
Keywords(correctAnswer) == SelectSeq(Split(correctAnswer), LAMBDA word : Len(word) > 3)

\* keywords.filter(keyword => userWords.some(...)).length
MatchCount(keywords, userWords) ==
  Len(SelectSeq(keywords, LAMBDA keyword :
        \E j \in 1..Len(userWords) :
           Includes(userWords[j], keyword) \/ Includes(keyword, userWords[j])))

\* SHORT_ANSWER with > for >=: exactly 60% no longer counts.
ShortAnswerMatch_Strict(userAnswer, correctAnswer) ==
  MatchCount(Keywords(correctAnswer), Split(userAnswer)) * 10
    > Len(Keywords(correctAnswer)) * 6

\* matchCount >= keywords.length * 0.6, in tenths
ShortAnswerMatch(userAnswer, correctAnswer) ==
  LET keywords   == Keywords(correctAnswer)
      userWords  == Split(userAnswer)
      matchCount == MatchCount(keywords, userWords)
  IN  matchCount * 10 >= Len(keywords) * 6

\* The if / else-if chain over question.type; isCorrect starts false.
EvaluateAnswer(question, answer) ==
  LET userAnswer    == NormalizeAnswer(answer)
      correctAnswer == NormalizeAnswer(question.correctAnswer)
  IN  IF question.type = "MULTIPLE_CHOICE" THEN ExactMatch(userAnswer, correctAnswer)
      ELSE IF question.type = "TRUE_FALSE" THEN ExactMatch(userAnswer, correctAnswer)
      ELSE IF question.type = "FILL_IN_BLANK"
           THEN FillInBlankMatch(userAnswer, correctAnswer)
      ELSE IF question.type = "SHORT_ANSWER"
           THEN ShortAnswerMatch(userAnswer, correctAnswer)
      ELSE FALSE

-----------------------------------------------------------------------------
(* submitQuestionResponse: the confidence and next-review estimator.       *)

\* 24 * 60 * 60 * 1000
DayMs == 24 * 60 * 60 * 1000

\* The confidence read as a 1-10 scale: response.confidence / 10.
NormalizedConfidence_OverTen(confidence) == (confidence * 10) \div 10

\* response.confidence / 5, in tenths
NormalizedConfidence(confidence) == (confidence * 10) \div 5

\* The adjustment without Math.min and Math.max.
AdjustConfidence_Unclamped(isCorrect, confidenceScore) ==
  IF isCorrect THEN confidenceScore + 1 ELSE confidenceScore - 2

\* Math.min(1, confidenceScore + 0.1) or Math.max(0, confidenceScore - 0.2)
AdjustConfidence(isCorrect, confidenceScore) ==
  IF isCorrect
  THEN (IF confidenceScore + 1 < 10 THEN confidenceScore + 1 ELSE 10)
  ELSE (IF confidenceScore - 2 > 0 THEN confidenceScore - 2 ELSE 0)

\* Math.floor for Math.round.
MathFloor(tenths) == tenths \div 10

\* Math.round of a number given in tenths: floor(x + 0.5)
MathRound(tenths) == (tenths + 5) \div 10

\* Math.round(baseInterval * confidenceMultiplier)
NextReviewDays(isCorrect, confidenceScore) ==
  LET baseInterval         == IF isCorrect THEN 2 ELSE 1
      confidenceMultiplier == confidenceScore * 2
  IN  MathRound(baseInterval * confidenceMultiplier)

\* Date.prototype.toISOString(): the calendar day and the time of day
ToISOString(time) == [date |-> time \div DayMs, time |-> time % DayMs]

\* new Date(isoString).getTime()
ParseISO(iso) == iso.date * DayMs + iso.time

-----------------------------------------------------------------------------
(* The service operations: what each resolves to.                          *)

\* Array.prototype.find(x => x.id === id) finds something
HasId(list, id) == \E i \in 1..Len(list) : list[i].id = id

\* Array.prototype.find(x => x.id === id), when it finds something
FindById(list, id) == list[Min({i \in 1..Len(list) : list[i].id = id})]

\* An option that was not passed
Undefined == "undefined"

\* options.numQuestions || 5
DefaultNumQuestions == 5

\* generateQuestions without its look-up of the material: an unknown
\* material has no questions, and the call succeeds with none.
generateQuestionsResult_NoLookup(materialId, options) ==
  [success   |-> TRUE,
   questions |-> SelectSeq(questions, LAMBDA q :
                   /\ q.materialId = materialId
                   /\ ~(options.questionType # Undefined /\ q.type # options.questionType)
                   /\ ~(options.difficulty # Undefined /\ q.difficulty # options.difficulty)),
   material  |-> Undefined]

\* generateQuestions without its slice(0, numQuestions)
generateQuestionsResult_NoSlice(materialId, options) ==
  IF ~HasId(materials, materialId)
  THEN [success |-> FALSE, error |-> "Material not found"]
  ELSE
    [success   |-> TRUE,
     questions |-> SelectSeq(questions, LAMBDA q :
                     /\ q.materialId = materialId
                     /\ ~(options.questionType # Undefined /\ q.type # options.questionType)
                     /\ ~(options.difficulty # Undefined /\ q.difficulty # options.difficulty)),
     material  |-> FindById(materials, materialId)]

generateQuestionsResult(materialId, options) ==
  IF ~HasId(materials, materialId)
  THEN [success |-> FALSE, error |-> "Material not found"]
  ELSE
    LET materialQuestions == SelectSeq(questions, LAMBDA q : q.materialId = materialId)
        filteredQuestions ==
          SelectSeq(materialQuestions, LAMBDA q :
            /\ ~(options.questionType # Undefined /\ q.type # options.questionType)
            /\ ~(options.difficulty # Undefined /\ q.difficulty # options.difficulty))
        wanted == IF options.numQuestions # 0 THEN options.numQuestions
                  ELSE DefaultNumQuestions
        numQuestions == IF wanted < Len(filteredQuestions) THEN wanted
                        ELSE Len(filteredQuestions)
    IN  [success   |-> TRUE,
         questions |-> SubSeq(filteredQuestions, 1, numQuestions),
         material  |-> FindById(materials, materialId)]

\* getQuestion that falls back on the first question instead of failing
getQuestionResult_FirstOnMiss(questionId) ==
  [success |-> TRUE,
   question |-> IF HasId(questions, questionId) THEN FindById(questions, questionId)
                ELSE questions[1]]

\* getQuestion that reports a miss by the flag alone:
\* { success: !!question, question }
getQuestionResult_FlagOnly(questionId) ==
  IF ~HasId(questions, questionId)
  THEN [success |-> FALSE, question |-> Undefined]
  ELSE [success |-> TRUE, question |-> FindById(questions, questionId)]

getQuestionResult(questionId) ==
  IF ~HasId(questions, questionId)
  THEN [success |-> FALSE, error |-> "Question not found"]
  ELSE [success |-> TRUE, question |-> FindById(questions, questionId)]

\* submitQuestionResponse that doubles the interval of a question the
\* service was asked about in the call before
submitQuestionResponseResult_Remembering(questionId, response, time) ==
  IF ~HasId(questions, questionId)
  THEN [success |-> FALSE, error |-> "Question not found"]
  ELSE
    LET question        == FindById(questions, questionId)
        isCorrect       == EvaluateAnswer(question, response.answer)
        confidenceScore ==
          AdjustConfidence(isCorrect, NormalizedConfidence(response.confidence))
        seenBefore      == /\ call.op \in {"getQuestion", "submitQuestionResponse"}
                           /\ call.questionId = questionId
        nextReviewDays  == NextReviewDays(isCorrect, confidenceScore)
                             * (IF seenBefore THEN 2 ELSE 1)
    IN  [success         |-> TRUE,
         isCorrect       |-> isCorrect,
         confidenceScore |-> confidenceScore,
         explanation     |-> question.explanation,
         correctAnswer   |-> question.correctAnswer,
         nextReviewDate  |-> ToISOString(time + nextReviewDays * DayMs),
         timeSpent       |-> response.timeSpent,
         userAnswer      |-> response.answer]

submitQuestionResponseResult(questionId, response, time) ==
  IF ~HasId(questions, questionId)
  THEN [success |-> FALSE, error |-> "Question not found"]
  ELSE
    LET question        == FindById(questions, questionId)
        isCorrect       == EvaluateAnswer(question, response.answer)
        confidenceScore ==
          AdjustConfidence(isCorrect, NormalizedConfidence(response.confidence))
        nextReviewDays  == NextReviewDays(isCorrect, confidenceScore)
    IN  [success         |-> TRUE,
         isCorrect       |-> isCorrect,
         confidenceScore |-> confidenceScore,
         explanation     |-> question.explanation,
         correctAnswer   |-> question.correctAnswer,
         nextReviewDate  |-> ToISOString(time + nextReviewDays * DayMs),
         timeSpent       |-> response.timeSpent,
         userAnswer      |-> response.answer]

-----------------------------------------------------------------------------
(* The callers' inputs.                                                    *)

UpperChar(c) ==
  IF \E i \in 1..Len(LowerCase) : LowerCase[i] = c
  THEN UpperCase[CHOOSE i \in 1..Len(LowerCase) : LowerCase[i] = c]
  ELSE c

ToUpperCase(s) == [i \in 1..Len(s) |-> UpperChar(s[i])]

RECURSIVE Join(_)
\* Array.prototype.join(' ')
Join(words) ==
  IF Len(words) = 0 THEN <<>>
  ELSE IF Len(words) = 1 THEN words[1]
  ELSE words[1] \o <<" ">> \o Join(Tail(words))

\* A SHORT_ANSWER question with five keywords (and one shorter word).
Ans_probe ==
  <<"P", "r", "i", "m", "a", "r", "y", " ", "k", "e", "y", "s", " ", "u", "n", "i", "q",
    "u", "e", "l", "y", " ", "i", "d", "e", "n", "t", "i", "f", "y", " ", "a", "l", "l",
    " ", "r", "e", "c", "o", "r", "d", "s">>

ProbeQuestion ==
  [id |-> "q_probe", materialId |-> "material_3", type |-> "SHORT_ANSWER",
   difficulty |-> "ADVANCED", correctAnswer |-> Ans_probe,
   explanation |-> "Primary keys uniquely identify records."]

CorrectAnswers == {Ans_q1, Ans_q2, Ans_q3, Ans_q4, Ans_q5, Ans_q6, Ans_probe}

\* Answers written like a correct answer: as it is, in another case, padded
\* with white space, cut short, and with more text around it.
AnswerVariants(a) ==
  { a, ToLowerCase(a), ToUpperCase(a),
    <<" ", "\t">> \o a \o <<" ", "\n">>,
    SubSeq(a, 1, 3),
    <<"n", "o", "t", " ">> \o ToLowerCase(a) \o <<" ", "a", "t", " ", "a", "l", "l">> }

\* Answers made of the first m keywords of a correct answer.
KeywordAnswers(a) ==
  LET keywords == Keywords(ToLowerCase(a))
  IN  { Join(SubSeq(keywords, 1, m)) : m \in 0..Len(keywords) }

Answers ==
  UNION { AnswerVariants(a) : a \in CorrectAnswers }
    \cup KeywordAnswers(Ans_q5) \cup KeywordAnswers(Ans_probe)
    \cup { <<>>, <<" ">>, <<" ", "\t", " ">>,
           <<"t", "r", "u", "e">>, <<"T", "r", "u", "e", " ">>,
           <<"u", "s", "e", "M", "e", "m", "o">>,
           <<"k", "e", "y", "s", " ", " ", "r", "e", "c", "o", "r", "d">> }

\* response.confidence: the 1-5 scale of the answer form
Confidences == 1..5

\* response.timeSpent, in seconds
TimeSpents == {0, 12}

QuestionIds == {"q1", "q2", "q3", "q4", "q5", "q6", "q_probe", "q_unknown"}

MaterialIds == {"material_1", "material_2", "material_3", "material_unknown"}

QuestionTypes == {"MULTIPLE_CHOICE", "TRUE_FALSE", "FILL_IN_BLANK", "SHORT_ANSWER"}

Difficulties == {"BEGINNER", "INTERMEDIATE", "ADVANCED"}

\* options = {} is the record of three options that were not passed
GenerateOptions ==
  [questionType : QuestionTypes \cup {Undefined},
   difficulty   : Difficulties \cup {Undefined},
   numQuestions : 0..MaxNumQuestions]

-----------------------------------------------------------------------------
(* The schedule and analytics fixtures and the two operations that read    *)
(* them.  The fixtures' "new Date()" is the time the module was loaded,    *)
(* which is time 0 here; decimal fractions are in tenths.  A calendar day  *)
(* (toDateString) is a whole number of days since time 0.                  *)

SAMPLE_USER_SCHEDULE ==
  << [id |-> "schedule_1", userId |-> "user_1", materialId |-> "material_1",
      questionId |-> "q1", scheduledDate |-> ToISOString(0), reviewCount |-> 0,
      difficulty |-> 25, lastReviewed |-> Undefined,
      nextReview |-> ToISOString(0), status |-> "DUE"],
     [id |-> "schedule_2", userId |-> "user_1", materialId |-> "material_1",
      questionId |-> "q2", scheduledDate |-> ToISOString(DayMs), reviewCount |-> 1,
      difficulty |-> 20, lastReviewed |-> "yesterday",
      nextReview |-> ToISOString(DayMs), status |-> "SCHEDULED"],
     [id |-> "schedule_3", userId |-> "user_1", materialId |-> "material_2",
      questionId |-> "q4", scheduledDate |-> ToISOString(0), reviewCount |-> 0,
      difficulty |-> 30, lastReviewed |-> Undefined,
      nextReview |-> ToISOString(0), status |-> "DUE"] >>

SAMPLE_ANALYTICS ==
  [success |-> TRUE, timeRange |-> "30d", totalQuestions |-> 25,
   correctAnswers |-> 18, incorrectAnswers |-> 7, averageConfidence |-> 32,
   averageResponseTime |-> 125, streakCurrent |-> 5, streakLongest |-> 12,
   difficultyBreakdown |->
     [BEGINNER |-> [total |-> 10, correct |-> 9, incorrect |-> 1],
      INTERMEDIATE |-> [total |-> 10, correct |-> 7, incorrect |-> 3],
      ADVANCED |-> [total |-> 5, correct |-> 2, incorrect |-> 3]],
   typeBreakdown |->
     [MULTIPLE_CHOICE |-> [total |-> 12, correct |-> 10, incorrect |-> 2],
      TRUE_FALSE |-> [total |-> 8, correct |-> 6, incorrect |-> 2],
      FILL_IN_BLANK |-> [total |-> 3, correct |-> 1, incorrect |-> 2],
      SHORT_ANSWER |-> [total |-> 2, correct |-> 1, incorrect |-> 1]],
   dailyStats |->
     << [date |-> "2025-05-17", questions |-> 3, correct |-> 2, timeSpent |-> 45],
        [date |-> "2025-05-18", questions |-> 5, correct |-> 4, timeSpent |-> 67],
        [date |-> "2025-05-19", questions |-> 2, correct |-> 2, timeSpent |-> 23],
        [date |-> "2025-05-20", questions |-> 4, correct |-> 3, timeSpent |-> 52],
        [date |-> "2025-05-21", questions |-> 6, correct |-> 4, timeSpent |-> 78],
        [date |-> "2025-05-22", questions |-> 3, correct |-> 2, timeSpent |-> 41],
        [date |-> "2025-05-23", questions |-> 2, correct |-> 1, timeSpent |-> 28] >>]

\* new Date(x).toDateString() of a time: its calendar day.
ToDateString(time) == time \div DayMs

\* options = {}: no option is given.
NoOptions == <<>>

\* getActiveRecallSchedule(userId, options); options.date, when given, is a
\* calendar day.
getActiveRecallScheduleResult(userId, options) ==
  LET OfUser(s) == s.userId = userId
      userSchedules == SelectSeq(schedules, OfUser)
      OnDate(s) == ToDateString(ParseISO(s.nextReview)) = options.date
  IN  IF "date" \in DOMAIN options
      THEN [success |-> TRUE, schedule |-> SelectSeq(userSchedules, OnDate)]
      ELSE [success |-> TRUE, schedule |-> userSchedules]

\* getLearningAnalytics(userId, options): { success: true, ...this.analytics }
getLearningAnalyticsResult(userId, options) ==
  [k \in {"success"} \cup DOMAIN analytics |->
     IF k \in DOMAIN analytics THEN analytics[k] ELSE TRUE]

UserIds == {"user_1", "user_unknown"}

ScheduleOptions == {NoOptions, [date |-> 0], [date |-> 1]}

AnalyticsOptions == {NoOptions, [timeRange |-> "7d"]}

-----------------------------------------------------------------------------
(* The hook useActiveRecall and the page ActiveRecall: their initial       *)
(* state.  null is a value of each type of its own; averageConfidence,     *)
(* a quotient, is a fraction in lowest terms.                              *)

\* null, where a string may be (error)
Null == "null"
\* null, where a question may be (currentQuestion)
NoQuestion == [id |-> Null]
\* null, where a submission's result may be (feedback)
NoFeedback == [success |-> FALSE, feedback |-> Null]
\* null, where a time may be (startTimeRef.current)
NoTime == -1

\* the fraction num / den
Fraction(num, den) == [num |-> num, den |-> den]

\* the initial and the reset value of sessionStats, but for total
EmptyStats(total) ==
  [correct |-> 0, incorrect |-> 0, total |-> total, timeSpent |-> 0,
   averageConfidence |-> Fraction(0, 1)]

\* The useState and useRef initial values of the hook and of the page.
useActiveRecall ==
  /\ hookQuestions = <<>>
  /\ currentQuestion = NoQuestion
  /\ currentQuestionIndex = 0
  /\ feedback = NoFeedback
  /\ schedule = <<>>
  /\ loading = FALSE
  /\ error = Null
  /\ sessionStats = EmptyStats(0)
  /\ startTime = NoTime
  /\ pending = {}
  /\ showSessionComplete = FALSE
  /\ feedbackFor = Null
  /\ answered = {}
  /\ hookUserAnswer = <<>>

-----------------------------------------------------------------------------
(* The state machine.                                                      *)

\* delay(ms = 500)
DefaultDelayMs == 500
\* this.delay(200)
GetQuestionDelayMs == 200
\* this.delay(300)
SubmitDelayMs == 300

NoCall == [op |-> "none"]

\* new MockActiveRecallAPI()
Init ==
  /\ questions = SAMPLE_QUESTIONS
  /\ materials = SAMPLE_LEARNING_MATERIALS
  /\ schedules = SAMPLE_USER_SCHEDULE
  /\ analytics = SAMPLE_ANALYTICS
  /\ now = 0
  /\ call = NoCall
  /\ result = NoCall
  /\ useActiveRecall

\* The evaluator as a function of the question too: the service over the
\* fixtures, with and without one more question.
InitEval ==
  /\ questions \in {SAMPLE_QUESTIONS, Append(SAMPLE_QUESTIONS, ProbeQuestion)}
  /\ materials = SAMPLE_LEARNING_MATERIALS
  /\ schedules = SAMPLE_USER_SCHEDULE
  /\ analytics = SAMPLE_ANALYTICS
  /\ now = 0
  /\ call = NoCall
  /\ result = NoCall
  /\ useActiveRecall

\* Each operation waits for its delay and then computes its result; the
\* model takes the two as one step, at the time the delay ends.
generateQuestions ==
  /\ now + DefaultDelayMs <= MaxClock
  /\ \E materialId \in MaterialIds, options \in GenerateOptions :
       /\ now' = now + DefaultDelayMs
       /\ call' = [op |-> "generateQuestions", materialId |-> materialId,
                   options |-> options, time |-> now']
       /\ result' = generateQuestionsResult(materialId, options)
  /\ UNCHANGED <<service, hook>>

getQuestion ==
  /\ now + GetQuestionDelayMs <= MaxClock
  /\ \E questionId \in QuestionIds :
       /\ now' = now + GetQuestionDelayMs
       /\ call' = [op |-> "getQuestion", questionId |-> questionId, time |-> now']
       /\ result' = getQuestionResult(questionId)
  /\ UNCHANGED <<service, hook>>

\* submitQuestionResponse that records the next review in this.schedules
submitQuestionResponse_Recording ==
  /\ now + SubmitDelayMs <= MaxClock
  /\ \E questionId \in QuestionIds, answer \in Answers,
        confidence \in Confidences, timeSpent \in TimeSpents :
       LET response ==
             [answer |-> answer, confidence |-> confidence, timeSpent |-> timeSpent]
       IN  /\ now' = now + SubmitDelayMs
           /\ call' = [op |-> "submitQuestionResponse", questionId |-> questionId,
                       response |-> response, time |-> now']
           /\ result' = submitQuestionResponseResult(questionId, response, now')
           /\ schedules' =
                IF result'.success
                THEN Append(schedules,
                       [id |-> "schedule_new", userId |-> "user_1",
                        questionId |-> questionId,
                        nextReview |-> result'.nextReviewDate, status |-> "SCHEDULED"])
                ELSE schedules
  /\ UNCHANGED <<questions, materials, analytics, hook>>

submitQuestionResponse ==
  /\ now + SubmitDelayMs <= MaxClock
  /\ \E questionId \in QuestionIds, answer \in Answers,
        confidence \in Confidences, timeSpent \in TimeSpents :
       LET response ==
             [answer |-> answer, confidence |-> confidence, timeSpent |-> timeSpent]
       IN  /\ now' = now + SubmitDelayMs
           /\ call' = [op |-> "submitQuestionResponse", questionId |-> questionId,
                       response |-> response, time |-> now']
           /\ result' = submitQuestionResponseResult(questionId, response, now')
  /\ UNCHANGED <<service, hook>>

getActiveRecallSchedule ==
  /\ now + DefaultDelayMs <= MaxClock
  /\ \E userId \in UserIds, options \in ScheduleOptions :
       /\ now' = now + DefaultDelayMs
       /\ call' = [op |-> "getActiveRecallSchedule", userId |-> userId,
                   options |-> options, time |-> now']
       /\ result' = getActiveRecallScheduleResult(userId, options)
  /\ UNCHANGED <<service, hook>>

getLearningAnalytics ==
  /\ now + DefaultDelayMs <= MaxClock
  /\ \E userId \in UserIds, options \in AnalyticsOptions :
       /\ now' = now + DefaultDelayMs
       /\ call' = [op |-> "getLearningAnalytics", userId |-> userId,
                   options |-> options, time |-> now']
       /\ result' = getLearningAnalyticsResult(userId, options)
  /\ UNCHANGED <<service, hook>>

Next ==
  \/ generateQuestions
  \/ getQuestion
  \/ submitQuestionResponse
  \/ getActiveRecallSchedule
  \/ getLearningAnalytics

Spec == Init /\ [][Next]_vars

SpecEval == InitEval /\ [][Next]_vars

-----------------------------------------------------------------------------
(* The hook useActiveRecall (src/frontend/src/hooks/useActiveRecall.js)    *)
(* with the page's bookkeeping of showSessionComplete                      *)
(* (src/frontend/src/pages/ActiveRecall.js).  An asynchronous function of  *)
(* the hook is two actions: the part before its await, which puts a        *)
(* request into pending, and its continuation, which takes one out.  The   *)
(* state updates of one handler or continuation are applied together, and  *)
(* the page's effect on showSessionComplete runs with the render that      *)
(* follows them.  activeRecallService, the module the hook imports, is the *)
(* mock service here, which may also fail or throw.  userAnswer changes   *)
(* through the question view only; the analytics the hook loads play no   *)
(* part.                                                                   *)

\* The most service calls the hook awaits at a time.
MaxPending == 2
\* The most submissions of one session, counted or awaited.
MaxSubmissions == 2
\* The clock moves in steps of TickMs, MaxTicks times at most.
TickMs == 600
MaxTicks == 1

\* useState of generationSettings in the page
DefaultSettings ==
  [questionType |-> "MULTIPLE_CHOICE", difficulty |-> "BEGINNER", numQuestions |-> 5]

\* generateQuestions(materialId, options): the page's material with the
\* settings as first shown and as changed, and an unknown material.
HookGenerateArgs ==
  {<<"material_1", DefaultSettings>>,
   <<"material_1", [questionType |-> Undefined, difficulty |-> "BEGINNER",
                    numQuestions |-> 2]>>,
   <<"material_unknown", DefaultSettings>>}

\* loadQuestion(questionId)
HookQuestionIds == {"q4", "q_unknown"}

\* submitAnswer(answer, confidence): what the user typed, the slider's value
HookAnswers == {Ans_q1, Ans_q2}
HookConfidences == {3}

\* How a call of the service ends: it resolves to the mock's result, it
\* resolves to a failure of its own, or it throws.
ServiceOutcomes == {"resolved", "failed", "thrown"}
ServiceFailure == [success |-> FALSE, error |-> "Service unavailable"]
\* No result, but an exception: success is there to be asked for, and false.
Thrown == [success |-> FALSE, thrown |-> TRUE]

Outcome(outcome, resolved) ==
  CASE outcome = "resolved" -> resolved
    [] outcome = "failed" -> ServiceFailure
    [] outcome = "thrown" -> Thrown

\* the awaited call threw: the catch branch runs
Threw(r) == "thrown" \in DOMAIN r
\* if (result.success)
Succeeded(r) == ~Threw(r) /\ r.success

\* Math.round(ms / 1000)
RoundSeconds(ms) == (ms + 500) \div 1000

RECURSIVE GCD(_, _)
GCD(a, b) == IF b = 0 THEN a ELSE GCD(b, a % b)

\* the fraction num / den in lowest terms
Reduced(num, den) == Fraction(num \div GCD(num, den), den \div GCD(num, den))

\* list[i] of a JavaScript array
At(list, i) == list[i + 1]

\* Computed values of the hook.
IsSessionComplete(qs, index) == Len(qs) > 0 /\ index >= Len(qs)
isSessionComplete == IsSessionComplete(hookQuestions, currentQuestionIndex)
hasNextQuestion == currentQuestionIndex < Len(hookQuestions) - 1
hasPreviousQuestion == currentQuestionIndex > 0

\* progress and completedProgress of the hook, in percent, as fractions
progress ==
  IF Len(hookQuestions) > 0
  THEN Fraction(currentQuestionIndex * 100, Len(hookQuestions))
  ELSE Fraction(0, 1)
completedProgress ==
  IF Len(hookQuestions) > 0
  THEN Fraction((currentQuestionIndex + (IF feedback # NoFeedback THEN 1 ELSE 0)) * 100,
                Len(hookQuestions))
  ELSE Fraction(0, 1)

\* The page's effect: if (isSessionComplete && !showSessionComplete)
\* setShowSessionComplete(true), after a render with questions qs and index.
SessionCompleteEffect(show, qs, index) == show \/ IsSessionComplete(qs, index)

\* An identifier for a new request.
FreeId == Min((1..MaxPending) \ {r.id : r \in pending})

\* The step is no return of a service call: call and result, which in the
\* hook's runs record the call that returned in the last step, are blank.
NoReturn == call' = NoCall /\ result' = NoCall

\* What a handler leaves alone unless it says otherwise.
session ==
  <<hookQuestions, currentQuestion, currentQuestionIndex, feedback, sessionStats,
    startTime, feedbackFor, hookUserAnswer, answered>>

\* generateQuestions(materialId, questionOptions), up to its await
hookGenerateQuestionsWith(materialId, questionOptions) ==
  /\ Cardinality(pending) < MaxPending
  /\ pending' = pending \cup
       {[id |-> FreeId, op |-> "generateQuestions",
         materialId |-> materialId, options |-> questionOptions]}
  /\ loading' = TRUE
  /\ error' = Null
  /\ UNCHANGED <<service, now, session, schedule, showSessionComplete>>
  /\ NoReturn

\* generateQuestions, called with one of HookGenerateArgs
hookGenerateQuestions ==
  \E args \in HookGenerateArgs : hookGenerateQuestionsWith(args[1], args[2])

\* generateQuestions after its await, without setCurrentQuestionIndex(0)
hookGenerateQuestionsDone_KeepIndex ==
  /\ \E request \in pending, outcome \in ServiceOutcomes :
       /\ request.op = "generateQuestions"
       /\ pending' = pending \ {request}
       /\ call' = [op |-> "generateQuestions", materialId |-> request.materialId,
                   options |-> request.options, time |-> now]
       /\ result' = Outcome(outcome,
                      generateQuestionsResult(request.materialId, request.options))
  /\ IF Succeeded(result')
     THEN /\ hookQuestions' = result'.questions
          /\ currentQuestion' = IF Len(result'.questions) > 0
                                THEN At(result'.questions, 0) ELSE NoQuestion
          /\ sessionStats' = EmptyStats(Len(result'.questions))
          /\ startTime' = now
          /\ answered' = {}
          /\ UNCHANGED <<currentQuestionIndex, feedback, feedbackFor, hookUserAnswer, error>>
     ELSE /\ error' = IF Threw(result') THEN "Failed to generate questions"
                      ELSE result'.error
          /\ UNCHANGED session
  /\ loading' = FALSE
  /\ showSessionComplete' =
       SessionCompleteEffect(FALSE, hookQuestions', currentQuestionIndex')
  /\ UNCHANGED <<service, now, schedule>>

\* generateQuestions after its await, clearing the questions when the call
\* failed or threw
hookGenerateQuestionsDone_ClearOnFailure ==
  /\ \E request \in pending, outcome \in ServiceOutcomes :
       /\ request.op = "generateQuestions"
       /\ pending' = pending \ {request}
       /\ call' = [op |-> "generateQuestions", materialId |-> request.materialId,
                   options |-> request.options, time |-> now]
       /\ result' = Outcome(outcome,
                      generateQuestionsResult(request.materialId, request.options))
  /\ IF Succeeded(result')
     THEN /\ hookQuestions' = result'.questions
          /\ currentQuestionIndex' = 0
          /\ currentQuestion' = IF Len(result'.questions) > 0
                                THEN At(result'.questions, 0) ELSE NoQuestion
          /\ sessionStats' = EmptyStats(Len(result'.questions))
          /\ startTime' = now
          /\ answered' = {}
          /\ UNCHANGED <<feedback, feedbackFor, hookUserAnswer, error>>
     ELSE /\ error' = IF Threw(result') THEN "Failed to generate questions"
                      ELSE result'.error
          /\ hookQuestions' = <<>>
          /\ currentQuestion' = NoQuestion
          /\ currentQuestionIndex' = 0
          /\ UNCHANGED <<feedback, sessionStats, startTime, feedbackFor, hookUserAnswer, answered>>
  /\ loading' = FALSE
  /\ showSessionComplete' =
       SessionCompleteEffect(FALSE, hookQuestions', currentQuestionIndex')
  /\ UNCHANGED <<service, now, schedule>>

\* generateQuestions after its await, and handleGenerateQuestions of the
\* page after it: setShowSessionComplete(false)
hookGenerateQuestionsDone ==
  /\ \E request \in pending, outcome \in ServiceOutcomes :
       /\ request.op = "generateQuestions"
       /\ pending' = pending \ {request}
       /\ call' = [op |-> "generateQuestions", materialId |-> request.materialId,
                   options |-> request.options, time |-> now]
       /\ result' = Outcome(outcome,
                      generateQuestionsResult(request.materialId, request.options))
  /\ IF Succeeded(result')
     THEN /\ hookQuestions' = result'.questions
          /\ currentQuestionIndex' = 0
          /\ currentQuestion' = IF Len(result'.questions) > 0
                                THEN At(result'.questions, 0) ELSE NoQuestion
          /\ sessionStats' = EmptyStats(Len(result'.questions))
          /\ startTime' = now
          /\ answered' = {}
          /\ UNCHANGED <<feedback, feedbackFor, hookUserAnswer, error>>
     ELSE /\ error' = IF Threw(result') THEN "Failed to generate questions"
                      ELSE result'.error
          /\ UNCHANGED session
  /\ loading' = FALSE
  /\ showSessionComplete' =
       SessionCompleteEffect(FALSE, hookQuestions', currentQuestionIndex')
  /\ UNCHANGED <<service, now, schedule>>

\* loadQuestion(questionId), up to its await
loadQuestion ==
  /\ Cardinality(pending) < MaxPending
  /\ \E questionId \in HookQuestionIds :
       pending' = pending \cup
         {[id |-> FreeId, op |-> "getQuestion", questionId |-> questionId]}
  /\ loading' = TRUE
  /\ error' = Null
  /\ UNCHANGED <<service, now, session, schedule, showSessionComplete>>
  /\ NoReturn

\* loadQuestion after its await, with one message for a failure and for an
\* exception
loadQuestionDone_OneMessage ==
  /\ \E request \in pending, outcome \in ServiceOutcomes :
       /\ request.op = "getQuestion"
       /\ pending' = pending \ {request}
       /\ call' = [op |-> "getQuestion", questionId |-> request.questionId,
                   time |-> now]
       /\ result' = Outcome(outcome, getQuestionResult(request.questionId))
  /\ IF Succeeded(result')
     THEN /\ currentQuestion' = result'.question
          /\ startTime' = now
          /\ UNCHANGED error
     ELSE /\ error' = "Failed to load question"
          /\ UNCHANGED <<currentQuestion, startTime>>
  /\ loading' = FALSE
  /\ UNCHANGED <<service, now, schedule, hookQuestions,
                 currentQuestionIndex, feedback, sessionStats, feedbackFor, hookUserAnswer,
                 answered, showSessionComplete>>

\* loadQuestion after its await
loadQuestionDone ==
  /\ \E request \in pending, outcome \in ServiceOutcomes :
       /\ request.op = "getQuestion"
       /\ pending' = pending \ {request}
       /\ call' = [op |-> "getQuestion", questionId |-> request.questionId,
                   time |-> now]
       /\ result' = Outcome(outcome, getQuestionResult(request.questionId))
  /\ IF Succeeded(result')
     THEN /\ currentQuestion' = result'.question
          /\ startTime' = now
          /\ UNCHANGED error
     ELSE /\ error' = IF Threw(result') THEN "Failed to load question"
                      ELSE result'.error
          /\ UNCHANGED <<currentQuestion, startTime>>
  /\ loading' = FALSE
  /\ UNCHANGED <<service, now, schedule, hookQuestions,
                 currentQuestionIndex, feedback, sessionStats, feedbackFor, hookUserAnswer,
                 answered, showSessionComplete>>

\* submitAnswer(answer, confidence), up to its await; without a current
\* question it returns at once
submitAnswerWith(answer, confidence) ==
  /\ Cardinality(pending) < MaxPending
  /\ sessionStats.correct + sessionStats.incorrect
       + Cardinality({r \in pending : r.op = "submitQuestionResponse"})
         < MaxSubmissions
  /\ currentQuestion # NoQuestion
  /\ LET questionTimeSpent ==
           IF startTime # NoTime THEN RoundSeconds(now - startTime) ELSE 0
     IN  pending' = pending \cup
           {[id |-> FreeId, op |-> "submitQuestionResponse",
             questionId |-> currentQuestion.id,
             response |-> [answer |-> answer, timeSpent |-> questionTimeSpent,
                           confidence |-> confidence],
             currentQuestionIndex |-> currentQuestionIndex]}
  /\ loading' = TRUE
  /\ error' = Null
  /\ UNCHANGED <<service, now, session, schedule, showSessionComplete>>
  /\ NoReturn

\* submitAnswer, called with one of HookAnswers and HookConfidences
submitAnswer ==
  \E answer \in HookAnswers, confidence \in HookConfidences :
    submitAnswerWith(answer, confidence)

\* sessionStats after a submission that counts the question into total too
CountSubmission_TotalToo(prev, isCorrect, questionTimeSpent, confidence, index) ==
  [prev EXCEPT
     !.correct = @ + (IF isCorrect THEN 1 ELSE 0),
     !.incorrect = @ + (IF isCorrect THEN 0 ELSE 1),
     !.total = @ + 1,
     !.timeSpent = @ + questionTimeSpent,
     !.averageConfidence =
        Reduced(@.num * index + confidence * @.den, @.den * (index + 1))]

\* sessionStats after a successful submission: setSessionStats(prev => ...)
CountSubmission(prev, isCorrect, questionTimeSpent, confidence, index) ==
  [prev EXCEPT
     !.correct = @ + (IF isCorrect THEN 1 ELSE 0),
     !.incorrect = @ + (IF isCorrect THEN 0 ELSE 1),
     !.timeSpent = @ + questionTimeSpent,
     !.averageConfidence =
        Reduced(@.num * index + confidence * @.den, @.den * (index + 1))]

\* submitAnswer after its await
submitAnswerDone ==
  /\ \E request \in pending, outcome \in ServiceOutcomes :
       /\ request.op = "submitQuestionResponse"
       /\ pending' = pending \ {request}
       /\ call' = [op |-> "submitQuestionResponse", questionId |-> request.questionId,
                   response |-> request.response, time |-> now,
                   currentQuestionIndex |-> request.currentQuestionIndex]
       /\ result' = Outcome(outcome,
                      submitQuestionResponseResult(request.questionId,
                                                   request.response, now))
  /\ IF Succeeded(result')
     THEN /\ feedback' = result'
          /\ sessionStats' =
               CountSubmission(sessionStats, result'.isCorrect,
                               call'.response.timeSpent, call'.response.confidence,
                               call'.currentQuestionIndex)
          /\ feedbackFor' = call'.questionId
          /\ UNCHANGED hookUserAnswer
          /\ answered' = answered \cup {call'.questionId}
          /\ UNCHANGED error
     ELSE /\ error' = IF Threw(result') THEN "Failed to submit answer"
                      ELSE result'.error
          /\ UNCHANGED <<feedback, sessionStats, feedbackFor, hookUserAnswer, answered>>
  /\ loading' = FALSE
  /\ UNCHANGED <<service, now, schedule, hookQuestions, currentQuestion,
                 currentQuestionIndex, startTime, showSessionComplete>>

\* loadSchedule(date), up to its await; the page's userId is 'user_1' and
\* the date defaults to today
loadSchedule ==
  /\ Cardinality(pending) < MaxPending
  /\ \E date \in {ToISOString(now).date} :
       pending' = pending \cup
         {[id |-> FreeId, op |-> "getActiveRecallSchedule",
           userId |-> "user_1", options |-> [date |-> date]]}
  /\ loading' = TRUE
  /\ error' = Null
  /\ UNCHANGED <<service, now, session, schedule, showSessionComplete>>
  /\ NoReturn

\* loadSchedule after its await, with setLoading(false) at the end of the
\* try block instead of in a finally block
loadScheduleDone_NoFinally ==
  /\ \E request \in pending, outcome \in ServiceOutcomes :
       /\ request.op = "getActiveRecallSchedule"
       /\ pending' = pending \ {request}
       /\ call' = [op |-> "getActiveRecallSchedule", userId |-> request.userId,
                   options |-> request.options, time |-> now]
       /\ result' = Outcome(outcome,
                      getActiveRecallScheduleResult(request.userId, request.options))
  /\ IF Succeeded(result')
     THEN /\ schedule' = result'.schedule
          /\ UNCHANGED error
     ELSE /\ error' = IF Threw(result') THEN "Failed to load schedule"
                      ELSE result'.error
          /\ UNCHANGED schedule
  /\ loading' = IF Threw(result') THEN loading ELSE FALSE
  /\ UNCHANGED <<service, now, session, showSessionComplete>>

\* loadSchedule after its await
loadScheduleDone ==
  /\ \E request \in pending, outcome \in ServiceOutcomes :
       /\ request.op = "getActiveRecallSchedule"
       /\ pending' = pending \ {request}
       /\ call' = [op |-> "getActiveRecallSchedule", userId |-> request.userId,
                   options |-> request.options, time |-> now]
       /\ result' = Outcome(outcome,
                      getActiveRecallScheduleResult(request.userId, request.options))
  /\ IF Succeeded(result')
     THEN /\ schedule' = result'.schedule
          /\ UNCHANGED error
     ELSE /\ error' = IF Threw(result') THEN "Failed to load schedule"
                      ELSE result'.error
          /\ UNCHANGED schedule
  /\ loading' = FALSE
  /\ UNCHANGED <<service, now, session, showSessionComplete>>

\* The state updates of nextQuestion(), the index advancing past the last
\* question too.
NextQuestionUpdates_PastEnd ==
  LET nextIndex == currentQuestionIndex + 1
  IN  IF nextIndex < Len(hookQuestions)
      THEN /\ currentQuestionIndex' = nextIndex
           /\ currentQuestion' = At(hookQuestions, nextIndex)
           /\ feedback' = NoFeedback
           /\ feedbackFor' = Null
           /\ hookUserAnswer' = <<>>
           /\ startTime' = now
      ELSE \* Session completed
           /\ currentQuestion' = NoQuestion
           /\ feedback' = NoFeedback
           /\ feedbackFor' = Null
           /\ UNCHANGED hookUserAnswer
           /\ currentQuestionIndex' = nextIndex
           /\ UNCHANGED startTime

\* The state updates of nextQuestion().
NextQuestionUpdates ==
  LET nextIndex == currentQuestionIndex + 1
  IN  IF nextIndex < Len(hookQuestions)
      THEN /\ currentQuestionIndex' = nextIndex
           /\ currentQuestion' = At(hookQuestions, nextIndex)
           /\ feedback' = NoFeedback
           /\ feedbackFor' = Null
           /\ hookUserAnswer' = <<>>
           /\ startTime' = now
      ELSE \* Session completed
           /\ currentQuestion' = NoQuestion
           /\ feedback' = NoFeedback
           /\ feedbackFor' = Null
           /\ UNCHANGED hookUserAnswer
           /\ UNCHANGED <<currentQuestionIndex, startTime>>

\* nextQuestion()
nextQuestion ==
  /\ NextQuestionUpdates
  /\ showSessionComplete' =
       SessionCompleteEffect(showSessionComplete, hookQuestions, currentQuestionIndex')
  /\ UNCHANGED <<service, now, hookQuestions, sessionStats, answered, schedule,
                 loading, error, pending>>
  /\ NoReturn

\* previousQuestion()
previousQuestion ==
  /\ LET prevIndex == currentQuestionIndex - 1
     IN  IF prevIndex >= 0
         THEN /\ currentQuestionIndex' = prevIndex
              /\ currentQuestion' = At(hookQuestions, prevIndex)
              /\ feedback' = NoFeedback
              /\ feedbackFor' = Null
              /\ hookUserAnswer' = <<>>
              /\ startTime' = now
         ELSE UNCHANGED <<currentQuestionIndex, currentQuestion, feedback,
                          feedbackFor, hookUserAnswer, startTime>>
  /\ showSessionComplete' =
       SessionCompleteEffect(showSessionComplete, hookQuestions, currentQuestionIndex')
  /\ UNCHANGED <<service, now, hookQuestions, sessionStats, answered, schedule,
                 loading, error, pending>>
  /\ NoReturn

\* resetSession()
resetSession ==
  /\ hookQuestions' = <<>>
  /\ currentQuestion' = NoQuestion
  /\ currentQuestionIndex' = 0
  /\ feedback' = NoFeedback
  /\ feedbackFor' = Null
  /\ hookUserAnswer' = <<>>
  /\ error' = Null
  /\ sessionStats' = EmptyStats(0)
  /\ answered' = {}
  /\ startTime' = NoTime
  /\ UNCHANGED <<service, now, schedule, loading, pending, showSessionComplete>>
  /\ NoReturn

\* clearError()
clearError ==
  /\ error' = Null
  /\ UNCHANGED <<service, now, session, schedule, loading, pending,
                 showSessionComplete>>
  /\ NoReturn

\* The Next button of the question view, which the page shows for the
\* current question while showSessionComplete is false and feedback is
\* there, enabled if hasNext (hasNextQuestion || isSessionComplete); its
\* onNext is handleNextQuestion of the page.
handleNextQuestion ==
  /\ currentQuestion # NoQuestion
  /\ ~showSessionComplete
  /\ feedback # NoFeedback
  /\ hasNextQuestion \/ isSessionComplete
  /\ IF hasNextQuestion
     THEN /\ NextQuestionUpdates
          /\ showSessionComplete' =
               SessionCompleteEffect(showSessionComplete, hookQuestions,
                                     currentQuestionIndex')
     ELSE /\ showSessionComplete' = (showSessionComplete \/ isSessionComplete)
          /\ UNCHANGED <<currentQuestionIndex, currentQuestion, feedback,
                         feedbackFor, hookUserAnswer, startTime>>
  /\ UNCHANGED <<service, now, hookQuestions, sessionStats, answered, schedule,
                 loading, error, pending>>
  /\ NoReturn

\* Time passes.
tick ==
  /\ now < MaxTicks * TickMs
  /\ now' = now + TickMs
  /\ UNCHANGED <<service, session, schedule, loading, error, pending,
                 showSessionComplete>>
  /\ NoReturn

\* The continuations: a call of the service returns.
SessionReturns ==
  \/ hookGenerateQuestionsDone
  \/ submitAnswerDone

LoadReturns ==
  \/ loadQuestionDone
  \/ loadScheduleDone

\* A session of questions: generated, answered, walked through, reset.
NextHook ==
  \/ hookGenerateQuestions
  \/ submitAnswer
  \/ SessionReturns
  \/ nextQuestion
  \/ previousQuestion
  \/ resetSession
  \/ clearError
  \/ handleNextQuestion
  \/ tick

\* The hook in the page, driven through a session by any caller.
SpecHook == Init /\ [][NextHook]_vars

\* handleGenerateQuestions of the page, for a user who starts a session when
\* there is none (the page does on mount, if questions.length === 0) and
\* then stays with it: clearError(); generateQuestions(materialId, settings)
handleGenerateQuestions ==
  /\ hookQuestions = <<>>
  /\ pending = {}
  /\ hookGenerateQuestions

\* A user who only moves forward: starts a session, answers, presses Next.
NextForward ==
  \/ handleGenerateQuestions
  \/ submitAnswer
  \/ SessionReturns
  \/ handleNextQuestion
  \/ tick

\* Every call of the service returns in the end, and the user presses the
\* Next button as long as it is enabled.
SpecForward ==
  /\ Init
  /\ [][NextForward]_vars
  /\ WF_vars(SessionReturns)
  /\ WF_vars(handleNextQuestion)

\* The four functions of the hook that call the service, and their returns.
NextRequests ==
  \/ hookGenerateQuestions
  \/ loadQuestion
  \/ submitAnswer
  \/ loadSchedule
  \/ SessionReturns
  \/ LoadReturns
  \/ clearError

SpecRequests == Init /\ [][NextRequests]_vars

\* A call of the service returns: any of the four continuations.
AnyReturn == SessionReturns \/ LoadReturns

\* The same, where every call of the service returns or throws in the end.
SpecRequestsFair == SpecRequests /\ WF_vars(AnyReturn)

-----------------------------------------------------------------------------
(* The question view: the ActiveRecallQuestion component on the page.      *)

\* useState of confidence in the component
DefaultConfidence == 3

\* The settings of the page's panel: as first shown, and with the question
\* type changed to fill-in-blank.
ComponentSettings ==
  {DefaultSettings,
   [questionType |-> "FILL_IN_BLANK", difficulty |-> "BEGINNER", numQuestions |-> 5]}

\* What the user types into the answer field, and the option they choose.
TypedAnswers == {Ans_q3, <<" ">>}
ChosenOptions == {Ans_q1}

\* The page renders the component for the current question.
Displayed == currentQuestion # NoQuestion /\ ~showSessionComplete

\* renderQuestionContent(): radio inputs for multiple choice and true/false,
\* the textarea with onKeyPress for every other type.
RendersTextarea(question) == question.type \notin {"MULTIPLE_CHOICE", "TRUE_FALSE"}

\* handleGenerateQuestions of the page with the panel's settings, for a user
\* who starts a session when there is none.
handleGenerateQuestionsWithSettings ==
  /\ hookQuestions = <<>>
  /\ pending = {}
  /\ \E settings \in ComponentSettings :
       hookGenerateQuestionsWith("material_1", settings)

\* onChange of the inputs, disabled once feedback is there:
\* onAnswerChange(e.target.value), which is setUserAnswer of the hook
onAnswerChange ==
  /\ Displayed
  /\ feedback = NoFeedback
  /\ \E value \in (IF RendersTextarea(currentQuestion)
                   THEN TypedAnswers ELSE ChosenOptions) :
       hookUserAnswer' = value
  /\ UNCHANGED <<service, now, hookQuestions, currentQuestion, currentQuestionIndex,
                 feedback, sessionStats, startTime, feedbackFor, answered,
                 schedule, loading, error, pending, showSessionComplete>>
  /\ NoReturn

\* handleSubmit() of the component: onSubmit is handleAnswerSubmit of the
\* page, which calls submitAnswer
handleSubmit ==
  /\ Trim(hookUserAnswer) # <<>>
  /\ submitAnswerWith(Trim(hookUserAnswer), DefaultConfidence)

\* onClick of the Submit button, which is there while there is no feedback:
\* disabled={!userAnswer.trim() || loading}
onClickSubmit ==
  /\ Displayed
  /\ feedback = NoFeedback
  /\ ~(Trim(hookUserAnswer) = <<>> \/ loading)
  /\ handleSubmit

\* handleKeyPress(e) of the textarea, disabled once feedback is there, for
\* the Enter key without Shift
handleKeyPress ==
  /\ Displayed
  /\ RendersTextarea(currentQuestion)
  /\ feedback = NoFeedback
  /\ Trim(hookUserAnswer) # <<>>
  /\ handleSubmit

\* A user at the question view: starts a session, fills in the answer,
\* submits it with the button or the Enter key, dismisses an error.  With
\* the fixtures a session the page generates has one question, its type
\* being one of the settings.
NextComponent ==
  \/ handleGenerateQuestionsWithSettings
  \/ onAnswerChange
  \/ onClickSubmit
  \/ handleKeyPress
  \/ SessionReturns
  \/ clearError
  \/ tick

SpecComponent == Init /\ [][NextComponent]_vars

-----------------------------------------------------------------------------
(* What the claims speak of.                                               *)

\* The last call was a submitQuestionResponse that found its question.
Submitted == call.op = "submitQuestionResponse" /\ result.success

\* The question the last call named (its identifier is in the list).
SubmittedQuestion ==
  CHOOSE q \in {questions[i] : i \in 1..Len(questions)} : q.id = call.questionId

\* A string that is empty or holds white space only.
Blank(s) == \A i \in 1..Len(s) : s[i] \in WhiteSpace

\* Trimmed, then lower-cased: the order in which the claims name the two.
TrimmedLower(s) == ToLowerCase(Trim(s))

\* The returned next-review date, as a time.
NextReviewTime == ParseISO(result.nextReviewDate)

\* C1: a submission whose answer is empty or white space only is evaluated
\* incorrect (and resolves to a result), whatever the type of the question.
C1_BlankAnswerIsIncorrect ==
  (call.op = "submitQuestionResponse" /\ HasId(questions, call.questionId)
     /\ Blank(call.response.answer))
    => (result.success /\ result.isCorrect = FALSE)

\* C2: the next-review date of a successful submission is at least one whole
\* day after the submission time.
C2_NextReviewAtLeastOneDayLater ==
  Submitted => NextReviewTime >= call.time + DayMs

\* C3: the next-review timestamp of a successful submission is strictly later
\* than the submission time.
C3_NextReviewStrictlyLater ==
  Submitted => NextReviewTime > call.time

\* C4: the confidence score of a successful submission lies in [0, 1]
\* (0..10 tenths), for a correct and for an incorrect answer.
C4_ConfidenceScoreInUnitInterval ==
  Submitted => (0 <= result.confidenceScore /\ result.confidenceScore <= 10)

\* C4's case: the upper clamp acts (confidence 5, correct: 1.1 becomes 1).
C4_Witness ==
  /\ Submitted
  /\ call.response.confidence = 5
  /\ result.isCorrect
  /\ result.confidenceScore = 10

\* min(1, c/5 + 0.1) and max(0, c/5 - 0.2), in tenths
ClaimedScore(c, isCorrect) ==
  IF isCorrect
  THEN Min({10, 2 * c + 1})
  ELSE Max({0, 2 * c - 2})

\* C5: the confidence score is min(1, c/5 + 0.1) for an answer evaluated
\* correct and max(0, c/5 - 0.2) for one evaluated incorrect.
C5_ConfidenceScoreFormula ==
  Submitted =>
    result.confidenceScore = ClaimedScore(call.response.confidence, result.isCorrect)

\* C5's case: an incorrect answer at confidence 1, where the floor is met.
C5_Witness ==
  /\ Submitted
  /\ call.response.confidence = 1
  /\ ~result.isCorrect
  /\ result.confidenceScore = 0

\* round(base * (confidenceScore * 2)): the whole number of days nearest to
\* the product (halves go up), the score being in tenths.
ClaimedDays(isCorrect, confidenceScore) ==
  LET base  == IF isCorrect THEN 2 ELSE 1
      tenths == base * (confidenceScore * 2)
  IN  CHOOSE d \in 0..4 : 10 * d - 5 <= tenths /\ tenths < 10 * d + 5

\* C6: the next-review date is the submission time plus
\* round(base * (confidenceScore * 2)) whole days, base 2 if correct and 1 if
\* not, confidenceScore being the score of the same feedback.
C6_NextReviewDateFormula ==
  Submitted =>
    NextReviewTime =
      call.time + ClaimedDays(result.isCorrect, result.confidenceScore) * DayMs

\* C6's case: a correct answer at confidence 3: 2 * (0.7 * 2) = 2.8 rounds to
\* 3 days.
C6_Witness ==
  /\ Submitted
  /\ result.isCorrect
  /\ call.response.confidence = 3
  /\ NextReviewTime = call.time + 3 * DayMs
  /\ call.time > 0

\* C7: for a MULTIPLE_CHOICE or TRUE_FALSE question the answer is correct
\* exactly when it equals the correct answer after both are trimmed and
\* lower-cased.
C7_ExactMatchIgnoringCaseAndPadding ==
  (Submitted /\ SubmittedQuestion.type \in {"MULTIPLE_CHOICE", "TRUE_FALSE"})
    => (result.isCorrect <=>
          TrimmedLower(call.response.answer)
            = TrimmedLower(SubmittedQuestion.correctAnswer))

\* C7's case: "assembly-based" for "Assembly-based" is correct.
C7_Witness ==
  /\ Submitted
  /\ call.questionId = "q1"
  /\ call.response.answer = ToLowerCase(Ans_q1)
  /\ call.response.answer # Ans_q1
  /\ result.isCorrect

\* C8: for a FILL_IN_BLANK question the answer is correct exactly when, both
\* trimmed and lower-cased, one of the two strings contains the other.
C8_FillInBlankContainment ==
  (Submitted /\ SubmittedQuestion.type = "FILL_IN_BLANK")
    => LET user    == TrimmedLower(call.response.answer)
           correct == TrimmedLower(SubmittedQuestion.correctAnswer)
       IN  result.isCorrect <=> (Includes(user, correct) \/ Includes(correct, user))

\* C8's case: a non-empty answer that is only a part of the correct one.
C8_Witness ==
  /\ Submitted
  /\ SubmittedQuestion.type = "FILL_IN_BLANK"
  /\ call.response.answer = SubSeq(Ans_q3, 1, 3)
  /\ result.isCorrect

\* The space-separated words of the correct answer longer than 3 characters.
ClaimedKeywords(q) ==
  LET words == Split(TrimmedLower(q.correctAnswer))
  IN  SelectSeq(words, LAMBDA w : Len(w) > 3)

\* How many of them contain, or are contained in, some word of the answer.
ClaimedMatches(q, answer) ==
  LET keywords == ClaimedKeywords(q)
      words    == Split(TrimmedLower(answer))
  IN  Cardinality({ i \in 1..Len(keywords) :
        \E j \in 1..Len(words) :
           Includes(words[j], keywords[i]) \/ Includes(keywords[i], words[j]) })

C10_UnknownMaterial ==
  (call.op = "generateQuestions"
     /\ \A i \in 1..Len(materials) : materials[i].id # call.materialId)
    => /\ result.success = FALSE
       /\ result.error = "Material not found"
       /\ "questions" \notin DOMAIN result

\* C10's case: an unknown material asked for with every option passed.
C10_Witness ==
  /\ call.op = "generateQuestions"
  /\ call.materialId = "material_unknown"
  /\ call.options.questionType # Undefined
  /\ call.options.difficulty # Undefined
  /\ call.options.numQuestions > 0
  /\ result.success = FALSE

\* The last call was a generateQuestions that found its material.
Generated == call.op = "generateQuestions" /\ result.success

\* A question of the material asked for, of the type and of the difficulty
\* asked for when they were given.
AskedFor(q) ==
  /\ q.materialId = call.materialId
  /\ (call.options.questionType # Undefined => q.type = call.options.questionType)
  /\ (call.options.difficulty # Undefined => q.difficulty = call.options.difficulty)

\* C11: for a known material, every question generateQuestions returns is of
\* that material and of the requested type and difficulty when given; the
\* returned list is a prefix of all such questions in the order of the
\* question list; it is no longer than the requested number, 5 when none is
\* requested.
C11_GeneratedQuestions ==
  Generated =>
    LET all == SelectSeq(questions, AskedFor)
    IN  /\ \A k \in 1..Len(result.questions) : AskedFor(result.questions[k])
        /\ Len(result.questions) <= Len(all)
        /\ \A k \in 1..Len(result.questions) : result.questions[k] = all[k]
        /\ Len(result.questions) <=
             (IF call.options.numQuestions # 0 THEN call.options.numQuestions ELSE 5)

\* C11's case: the requested number cuts the list (two of the three
\* questions of material_1).
C11_Witness ==
  /\ Generated
  /\ call.materialId = "material_1"
  /\ call.options.numQuestions = 2
  /\ Len(result.questions) = 2
  /\ Len(SelectSeq(questions, AskedFor)) = 3

\* The question identifier of the last call is in the question list.
KnownQuestion == \E i \in 1..Len(questions) : questions[i].id = call.questionId

\* C12: getQuestion and submitQuestionResponse for an unknown question
\* identifier both resolve to success = false and "Question not found", with
\* no question and no feedback computed; getQuestion for a known identifier
\* resolves to success = true and the question with exactly that identifier.
C12_QuestionLookup ==
  /\ (call.op \in {"getQuestion", "submitQuestionResponse"} /\ ~KnownQuestion)
       => /\ result.success = FALSE
          /\ result.error = "Question not found"
          /\ DOMAIN result = {"success", "error"}
  /\ (call.op = "getQuestion" /\ KnownQuestion)
       => /\ result.success = TRUE
          /\ result.question.id = call.questionId
          /\ \E i \in 1..Len(questions) : questions[i] = result.question

\* C12's case: a submission for an unknown question, answered as the
\* question q1 would have to be.
C12_Witness ==
  /\ call.op = "submitQuestionResponse"
  /\ call.questionId = "q_unknown"
  /\ call.response.answer = Ans_q1
  /\ result.success = FALSE

\* The fields that make up the payload of an operation's result.
Payload(op) ==
  CASE op = "generateQuestions" -> {"questions", "material"}
    [] op = "getQuestion" -> {"question"}
    [] op = "submitQuestionResponse" ->
         {"isCorrect", "confidenceScore", "explanation", "correctAnswer",
          "nextReviewDate", "timeSpent", "userAnswer"}
    [] op = "getActiveRecallSchedule" -> {"schedule"}
    [] op = "getLearningAnalytics" -> DOMAIN SAMPLE_ANALYTICS \ {"success"}

\* The error strings of the service.
ErrorStrings == {"Material not found", "Question not found"}

\* C13: every result of the five service operations carries a boolean
\* success, an error string exactly when success is false, and the payload
\* of its operation exactly when success is true.
C13_ResultShape ==
  call.op # "none" =>
    /\ result.success \in BOOLEAN
    /\ ("error" \in DOMAIN result) <=> (result.success = FALSE)
    /\ ("error" \in DOMAIN result) => result.error \in ErrorStrings
    /\ result.success => Payload(call.op) \subseteq DOMAIN result
    /\ ~result.success => Payload(call.op) \cap DOMAIN result = {}

\* C13's case: the analytics result, whose payload is spread next to the
\* success flag.
C13_Witness ==
  /\ call.op = "getLearningAnalytics"
  /\ result.success = TRUE
  /\ result.totalQuestions = 25
  /\ "error" \notin DOMAIN result

\* C14: no sequence of service operations changes the question list, the
\* material list, the schedule list or the analytics snapshot; a submitted
\* response and its next-review date are not recorded in the schedule.
C14_ServiceIsReadOnly ==
  /\ questions = SAMPLE_QUESTIONS
  /\ materials = SAMPLE_LEARNING_MATERIALS
  /\ schedules = SAMPLE_USER_SCHEDULE
  /\ analytics = SAMPLE_ANALYTICS
  /\ Submitted =>
       \A i \in 1..Len(schedules) :
         ~(schedules[i].questionId = call.questionId
             /\ schedules[i].nextReview = result.nextReviewDate)

\* C14's case: a submission for q1, a question the schedule has an entry
\* for, has been evaluated.
C14_Witness ==
  /\ Submitted
  /\ call.questionId = "q1"
  /\ \E i \in 1..Len(schedules) : schedules[i].questionId = "q1"
  /\ schedules = SAMPLE_USER_SCHEDULE

\* C15: what a successful submitQuestionResponse returns as isCorrect,
\* confidenceScore and nextReviewDate is fixed by the question, the answer,
\* the confidence and the clock value of the call, so that two calls that
\* agree in these return the same three values whichever operations came
\* before either of them.
C15_SubmissionDependsOnItsArgumentsOnly ==
  Submitted =>
    LET question        == FindById(SAMPLE_QUESTIONS, call.questionId)
        isCorrect       == EvaluateAnswer(question, call.response.answer)
        confidenceScore ==
          AdjustConfidence(isCorrect, NormalizedConfidence(call.response.confidence))
        nextReviewDays  == NextReviewDays(isCorrect, confidenceScore)
    IN  /\ result.isCorrect = isCorrect
        /\ result.confidenceScore = confidenceScore
        /\ result.nextReviewDate = ToISOString(call.time + nextReviewDays * DayMs)

\* C15's case: in a session of the hook a second submission of the correct
\* answer to q1 has returned, after whatever the session did before.
C15_Witness ==
  /\ Submitted
  /\ call.questionId = "q1"
  /\ call.response.answer = Ans_q1
  /\ result.isCorrect
  /\ sessionStats.correct = 2

\* In the runs of the hook: the last step was the return of a service call,
\* and the call resolved to success = false.
ReturnedFailure == call.op # "none" /\ ~Threw(result) /\ ~result.success

\* C16: when a service call made by generateQuestions, loadQuestion,
\* submitAnswer or loadSchedule returns success = false, the hook's error
\* becomes exactly the error string of the result, and the hook makes no
\* service call of its own in return: the request leaves pending and none
\* enters it.
C16_FailureSetsErrorWithoutRetry ==
  [][ReturnedFailure' =>
        /\ error' = result'.error
        /\ pending' \subseteq pending
        /\ Cardinality(pending') = Cardinality(pending) - 1]_vars

\* C16's case: generateQuestions for an unknown material has returned with
\* the mock's failure, and nothing is awaited.
C16_Witness ==
  /\ ReturnedFailure
  /\ call.op = "generateQuestions"
  /\ result.error = "Material not found"
  /\ error = "Material not found"
  /\ pending = {}

\* A session has been generated and a submission has been counted for every
\* one of its questions.
SessionAnswered ==
  /\ hookQuestions # <<>>
  /\ \A i \in 1..Len(hookQuestions) : hookQuestions[i].id \in answered

\* C17: once an answer has been submitted to every question of a generated,
\* non-empty session, the session-complete view is shown in the end:
\* isSessionComplete is true and showSessionComplete is set.
C17_SessionCompleteIsShown ==
  SessionAnswered ~> (isSessionComplete /\ showSessionComplete)

\* C18: the return of a submitAnswer whose result is successful sets
\* feedback to that result, adds one to exactly one of sessionStats.correct
\* and sessionStats.incorrect (to correct exactly when the result is
\* correct), adds the seconds the question took to sessionStats.timeSpent and
\* leaves sessionStats.total as it was; the return of one that failed or
\* threw leaves feedback and sessionStats as they were.
C18_SubmitAnswerAccounting ==
  [][call'.op = "submitQuestionResponse" =>
       IF Succeeded(result')
       THEN /\ feedback' = result'
            /\ sessionStats'.correct =
                 sessionStats.correct + (IF result'.isCorrect THEN 1 ELSE 0)
            /\ sessionStats'.incorrect =
                 sessionStats.incorrect + (IF result'.isCorrect THEN 0 ELSE 1)
            /\ sessionStats'.timeSpent =
                 sessionStats.timeSpent + call'.response.timeSpent
            /\ sessionStats'.total = sessionStats.total
       ELSE /\ feedback' = feedback
            /\ sessionStats' = sessionStats]_vars

\* C18's case: a correct answer that took a second has been counted after an
\* incorrect one.
C18_Witness ==
  /\ Submitted
  /\ result.isCorrect
  /\ call.response.timeSpent = 1
  /\ feedback = result
  /\ sessionStats.correct = 1
  /\ sessionStats.incorrect = 1
  /\ sessionStats.timeSpent >= 1

\* C19: after any sequence of generateQuestions, submitAnswer, nextQuestion,
\* previousQuestion and resetSession, sessionStats.correct plus
\* sessionStats.incorrect does not exceed sessionStats.total.
C19_CountedAtMostTotal ==
  sessionStats.correct + sessionStats.incorrect <= sessionStats.total

\* C20: a feedback that is not null is the result of a submission made for
\* the question that is the current question.
C20_FeedbackIsForCurrentQuestion ==
  feedback # NoFeedback =>
    (currentQuestion # NoQuestion /\ feedbackFor = currentQuestion.id)

\* C22: loading is true whenever a call of generateQuestions, loadQuestion,
\* submitAnswer or loadSchedule has not returned yet, several of them
\* overlapping included.
C22_LoadingWhileAwaiting ==
  pending # {} => loading

\* C23: if every call of the service returns or throws in the end, loading
\* does not stay true: every return of a call of generateQuestions,
\* loadQuestion, submitAnswer or loadSchedule sets it to false, whether the
\* call succeeded, failed or threw; it is false whenever no call is awaited;
\* and from every state in which it is true a state follows in which it is
\* false.
C23_LoadingEnds ==
  /\ [](pending = {} => ~loading)
  /\ [][call'.op # "none" => loading' = FALSE]_vars
  /\ (loading ~> ~loading)

\* C23's case: a submission threw, the last call awaited, and loading is
\* false.
C23_Witness ==
  /\ call.op = "submitQuestionResponse"
  /\ Threw(result)
  /\ pending = {}
  /\ loading = FALSE
  /\ error = "Failed to submit answer"

\* C24: with loadQuestion left out, whenever currentQuestion is not null it
\* is the element of questions at position currentQuestionIndex.
C24_CurrentQuestionIsAtIndex ==
  currentQuestion # NoQuestion =>
    /\ currentQuestionIndex \in 0..(Len(hookQuestions) - 1)
    /\ currentQuestion = At(hookQuestions, currentQuestionIndex)

\* C24's case: an answer was submitted and nextQuestion() moved on to the
\* second question of the session.
C24_Witness ==
  /\ answered # {}
  /\ currentQuestionIndex = 1
  /\ currentQuestion # NoQuestion
  /\ currentQuestion = At(hookQuestions, 1)
  /\ currentQuestion # At(hookQuestions, 0)

\* a percentage between 0 and 100
InPercentRange(fraction) ==
  fraction.den > 0 /\ 0 <= fraction.num /\ fraction.num <= 100 * fraction.den

\* C25: currentQuestionIndex is 0 when questions is empty and otherwise at
\* least 0 and less than questions.length; progress and completedProgress
\* lie between 0 and 100.
C25_IndexAndProgressInRange ==
  /\ IF hookQuestions = <<>>
     THEN currentQuestionIndex = 0
     ELSE 0 <= currentQuestionIndex /\ currentQuestionIndex < Len(hookQuestions)
  /\ InPercentRange(progress)
  /\ InPercentRange(completedProgress)

\* C25's case: the last question of a session of several questions has its
\* feedback, so completedProgress is 100 and progress is less.
C25_Witness ==
  /\ Len(hookQuestions) > 1
  /\ currentQuestionIndex = Len(hookQuestions) - 1
  /\ feedback # NoFeedback
  /\ completedProgress = Fraction(100 * Len(hookQuestions), Len(hookQuestions))
  /\ progress.num < 100 * progress.den

\* A step in which a call of generateQuestions starts, and one in which it
\* returns success = false or throws.
GenerateStarts ==
  \E request \in pending' \ pending : request.op = "generateQuestions"
GenerateFails ==
  /\ pending' # pending
  /\ call'.op = "generateQuestions"
  /\ ~Succeeded(result')

\* C26: a call of generateQuestions that returns success = false or throws
\* leaves questions, currentQuestion, currentQuestionIndex, feedback and
\* sessionStats as they were, in the step that starts it and in the step in
\* which it returns; the schedule stays too, so that of the hook's state only
\* error and loading change.
C26_FailedGenerationKeepsSession ==
  [][GenerateStarts \/ GenerateFails =>
       /\ UNCHANGED <<hookQuestions, currentQuestion, currentQuestionIndex,
                      feedback, sessionStats, schedule>>
       /\ GenerateFails => error' # Null /\ loading' = FALSE]_vars

\* C26's case: a session is under way, with feedback on its second question,
\* and a call of generateQuestions for an unknown material has just returned
\* success = false.
C26_Witness ==
  /\ call.op = "generateQuestions"
  /\ call.materialId = "material_unknown"
  /\ ~Succeeded(result) /\ ~Threw(result)
  /\ error = result.error
  /\ hookQuestions # <<>>
  /\ currentQuestionIndex = 1
  /\ feedback # NoFeedback
  /\ sessionStats # EmptyStats(Len(hookQuestions))

\* C21: through the question view at most one submission is awaited at a
\* time: while a call of submitAnswer has not returned, no step, by the
\* Submit button or by the Enter key in the answer field, starts another.
C21_OneSubmissionAtATime ==
  [][(\E request \in pending : request.op = "submitQuestionResponse")
       => ~\E request \in pending' \ pending :
             request.op = "submitQuestionResponse"]_vars

=============================================================================
